---- MODULE Spec2Model ----
(***************************************************************************)
(* redact-pdf: the token filter (class Filter), the content walker         *)
(* (redactPage) and the document driver (main) of src/redact-pdf.cc.       *)
(*                                                                         *)
(* Text and raw bytes are sequences of one-character strings.  A regular   *)
(* expression is a literal: the sequence of characters it matches.         *)
(***************************************************************************)
EXTENDS Integers, Sequences, FiniteSets, TLC

(***************************************************************************)
(* Bounds of the model.                                                    *)
(***************************************************************************)
\* Longest token sequence delivered to one Filter instance.
MaxTokens == 4

(***************************************************************************)
(* enum scope_t, in declaration order.                                     *)
(***************************************************************************)
s_match == 0
s_operator == 1
s_text_object == 2
s_graphics_state == 3
s_stream == 4
s_page == 5

Scopes == {s_match, s_operator, s_text_object, s_graphics_state, s_stream, s_page}

\* A slip: no scope is taken to nest.
nestable_Never(scope) == FALSE

nestable(scope) == scope = s_text_object \/ scope = s_graphics_state

(***************************************************************************)
(* QPDFTokenizer::Token: a type, a logical value and the raw bytes.        *)
(***************************************************************************)
tt_word == "tt_word"
tt_space == "tt_space"
tt_string == "tt_string"
tt_array_open == "tt_array_open"

\* The hexadecimal digits of a character, as a hex string <...> spells it.
HexOf(c) == IF c = "a" THEN <<"6", "1">> ELSE <<"6", "2">>

RECURSIVE HexEncode(_)
HexEncode(text) ==
    IF text = <<>> THEN <<>> ELSE HexOf(Head(text)) \o HexEncode(Tail(text))

RECURSIVE HexDecode(_)
HexDecode(digits) ==
    IF Len(digits) < 2 THEN <<>>
    ELSE <<IF SubSeq(digits, 1, 2) = <<"6", "1">> THEN "a" ELSE "b">>
         \o HexDecode(SubSeq(digits, 3, Len(digits)))

\* QPDF_String::unparse of printable text: the literal form (text).
Unparse(value) == <<"(">> \o value \o <<")">>

\* Token(tt_string, value): the raw bytes are made from the value.
StringToken(value) == [type |-> tt_string, value |-> value, raw |-> Unparse(value)]

\* A string the document spells in hexadecimal form: same value, other bytes.
HexStringToken(value) ==
    [type |-> tt_string, value |-> value,
     raw |-> <<"<">> \o HexEncode(value) \o <<">">>]

WordToken(w) == [type |-> tt_word, value |-> w, raw |-> w]

BT == <<"B", "T">>
ET == <<"E", "T">>
q == <<"q">>
Q == <<"Q">>
Tj == <<"T", "j">>

SpaceToken == [type |-> tt_space, value |-> <<" ">>, raw |-> <<" ">>]
ArrayOpenToken == [type |-> tt_array_open, value |-> <<"[">>, raw |-> <<"[">>]

\* The tokenizer on the bytes of one token (the inverse of the raw forms).
Tokenize(raw) ==
    CASE Head(raw) = "(" -> StringToken(SubSeq(raw, 2, Len(raw) - 1))
      [] Head(raw) = "<" -> HexStringToken(HexDecode(SubSeq(raw, 2, Len(raw) - 1)))
      [] Head(raw) = " " -> [type |-> tt_space, value |-> raw, raw |-> raw]
      [] Head(raw) = "[" -> ArrayOpenToken
      [] OTHER -> WordToken(raw)

\* A character that neither is white space nor delimits a token.
IsRegular(c) == c \notin {"(", ")", "<", ">", "[", " "}

\* The last byte of the token that starts at byte i: a string runs to its
\* closing delimiter, white space and words run while their kind continues.
RECURSIVE TokenEnd(_, _, _)
TokenEnd(bytes, i, j) ==
    IF j >= Len(bytes) THEN Len(bytes)
    ELSE CASE bytes[i] = "(" -> IF bytes[j] = ")" /\ j > i THEN j
                                ELSE TokenEnd(bytes, i, j + 1)
           [] bytes[i] = "<" -> IF bytes[j] = ">" THEN j
                                ELSE TokenEnd(bytes, i, j + 1)
           [] bytes[i] = " " -> IF bytes[j + 1] = " "
                                THEN TokenEnd(bytes, i, j + 1) ELSE j
           [] IsRegular(bytes[i]) -> IF IsRegular(bytes[j + 1])
                                     THEN TokenEnd(bytes, i, j + 1) ELSE j
           [] OTHER -> j

\* QPDFTokenizer over the bytes of a content stream.
RECURSIVE TokenizeFrom(_, _)
TokenizeFrom(bytes, i) ==
    IF i > Len(bytes) THEN <<>>
    ELSE LET j == TokenEnd(bytes, i, i)
         IN  <<Tokenize(SubSeq(bytes, i, j))>> \o TokenizeFrom(bytes, j + 1)

Tokenizer(bytes) == TokenizeFrom(bytes, 1)

\* The bytes of a token sequence, as a content stream holds them.
RECURSIVE Bytes(_)
Bytes(pieces) ==
    IF pieces = <<>> THEN <<>> ELSE Head(pieces).raw \o Bytes(Tail(pieces))

(***************************************************************************)
(* std::regex_search and std::regex_replace(text, regex, "") for a literal *)
(* regular expression.                                                     *)
(***************************************************************************)
MatchAt(text, re, i) ==
    /\ i + Len(re) - 1 <= Len(text)
    /\ SubSeq(text, i, i + Len(re) - 1) = re

regex_search(text, re) == \E i \in 1..Len(text) : MatchAt(text, re, i)

\* One pass from the left: a match is skipped, any other character is copied.
RECURSIVE ReplaceFrom(_, _, _)
ReplaceFrom(text, re, i) ==
    IF i > Len(text) THEN <<>>
    ELSE IF MatchAt(text, re, i) THEN ReplaceFrom(text, re, i + Len(re))
    ELSE <<text[i]>> \o ReplaceFrom(text, re, i + 1)

regex_replace(text, re) == ReplaceFrom(text, re, 1)

(***************************************************************************)
(* class Filter.  A frame is a pair: first, the unwritten raw data, and    *)
(* second, the collected text.  The raw data is kept token by token, each  *)
(* piece with the position (pos) of the delivered token it came from.      *)
(* n counts the tokens delivered; discarded and dropped record the         *)
(* positions whose bytes a redacting flush or the trim flag threw away,    *)
(* and redactedAt the positions at which a redacting flush happened.       *)
(***************************************************************************)
EmptyFrame == [first |-> <<>>, second |-> <<>>]

Filter(regex, scope) ==
    [_regex |-> regex, _scope |-> scope, _redact |-> FALSE, _trim |-> FALSE,
     _stack |-> <<EmptyFrame>>,
     n |-> 0, discarded |-> {}, dropped |-> {}, redactedAt |-> {}]

Positions(first) == {first[i].pos : i \in 1..Len(first)}

\* A slip: adding a token leaves the trim flag as it is.
_add_KeepTrim(f, token) ==
    LET top == Len(f._stack)
        frame == f._stack[top]
        added == [first |-> Append(frame.first, [raw |-> token.raw, pos |-> f.n]),
                  second |-> IF token.type = tt_string
                             THEN frame.second \o token.value
                             ELSE frame.second]
    IN  [f EXCEPT !._stack[top] = added]

\* A slip: the text of a string token is not collected.
_add_NoText(f, token) ==
    LET top == Len(f._stack)
        frame == f._stack[top]
        added == [first |-> Append(frame.first, [raw |-> token.raw, pos |-> f.n]),
                  second |-> frame.second]
    IN  [f EXCEPT !._stack[top] = added, !._trim = FALSE]

\* Add a token to the currently active frame
_add(f, token) ==
    LET top == Len(f._stack)
        frame == f._stack[top]
        added == [first |-> Append(frame.first, [raw |-> token.raw, pos |-> f.n]),
                  second |-> IF token.type = tt_string
                             THEN frame.second \o token.value
                             ELSE frame.second]
    IN  [f EXCEPT !._stack[top] = added, !._trim = FALSE]

\* A slip: the text of a frame that is kept goes before the text below.
_flush_TextSwapped(f) ==
    LET top == Len(f._stack)
        frame == f._stack[top]
        popped == SubSeq(f._stack, 1, top - 1)
    IN  IF ~regex_search(frame.second, f._regex)
        THEN [f EXCEPT !._stack =
                 [popped EXCEPT ![top - 1] =
                     [first |-> @.first \o frame.first,
                      second |-> frame.second \o @.second]]]
        ELSE [f EXCEPT !._stack = popped, !._redact = TRUE, !._trim = TRUE,
                       !.discarded = @ \cup Positions(frame.first),
                       !.redactedAt = @ \cup {f.n}]

\* A slip: a frame that is kept is put before what the lower frame holds.
_flush_Prepend(f) ==
    LET top == Len(f._stack)
        frame == f._stack[top]
        popped == SubSeq(f._stack, 1, top - 1)
    IN  IF ~regex_search(frame.second, f._regex)
        THEN [f EXCEPT !._stack =
                 [popped EXCEPT ![top - 1] =
                     [first |-> frame.first \o @.first,
                      second |-> frame.second \o @.second]]]
        ELSE [f EXCEPT !._stack = popped, !._redact = TRUE, !._trim = TRUE,
                       !.discarded = @ \cup Positions(frame.first),
                       !.redactedAt = @ \cup {f.n}]

\* A slip: the text of a redacted frame is handed down to the lower frame.
_flush_KeepText(f) ==
    LET top == Len(f._stack)
        frame == f._stack[top]
        popped == SubSeq(f._stack, 1, top - 1)
    IN  IF ~regex_search(frame.second, f._regex)
        THEN [f EXCEPT !._stack =
                 [popped EXCEPT ![top - 1] =
                     [first |-> @.first \o frame.first,
                      second |-> @.second \o frame.second]]]
        ELSE [f EXCEPT !._stack =
                 [popped EXCEPT ![top - 1] =
                     [first |-> @.first,
                      second |-> @.second \o frame.second]],
                       !._redact = TRUE, !._trim = TRUE,
                       !.discarded = @ \cup Positions(frame.first),
                       !.redactedAt = @ \cup {f.n}]

\* A slip: a frame that is kept hands down its text but not its raw data.
_flush_DropData(f) ==
    LET top == Len(f._stack)
        frame == f._stack[top]
        popped == SubSeq(f._stack, 1, top - 1)
    IN  IF ~regex_search(frame.second, f._regex)
        THEN [f EXCEPT !._stack =
                 [popped EXCEPT ![top - 1] =
                     [first |-> @.first,
                      second |-> @.second \o frame.second]]]
        ELSE [f EXCEPT !._stack = popped, !._redact = TRUE, !._trim = TRUE,
                       !.discarded = @ \cup Positions(frame.first),
                       !.redactedAt = @ \cup {f.n}]

\* Flush the currently active frame to the next lower frame
_flush(f) ==
    LET top == Len(f._stack)
        frame == f._stack[top]
        popped == SubSeq(f._stack, 1, top - 1)
    IN  IF ~regex_search(frame.second, f._regex)
        THEN [f EXCEPT !._stack =
                 [popped EXCEPT ![top - 1] =
                     [first |-> @.first \o frame.first,
                      second |-> @.second \o frame.second]]]
        ELSE [f EXCEPT !._stack = popped, !._redact = TRUE, !._trim = TRUE,
                       !.discarded = @ \cup Positions(frame.first),
                       !.redactedAt = @ \cup {f.n}]

\* A slip: a frame is started only when none is open, nestable or not.
_start_NoNest(f, scope, token) ==
    IF f._scope = scope /\ Len(f._stack) = 1
    THEN _add([f EXCEPT !._stack = Append(@, EmptyFrame)], token)
    ELSE _add(f, token)

\* A slip: a frame is started whether or not one is open.
_start_AlwaysPush(f, scope, token) ==
    IF f._scope = scope
    THEN _add([f EXCEPT !._stack = Append(@, EmptyFrame)], token)
    ELSE _add(f, token)

\* Start a new frame if the desired scope matches the expected scope
_start(f, scope, token) ==
    IF f._scope = scope /\ (nestable(scope) \/ Len(f._stack) = 1)
    THEN _add([f EXCEPT !._stack = Append(@, EmptyFrame)], token)
    ELSE _add(f, token)

\* A slip: the end of a scope flushes two frames when two are open.
_end_FlushTwice(f, scope, token) ==
    LET g == _add(f, token)
    IN  IF g._scope = scope /\ Len(g._stack) > 2 THEN _flush(_flush(g))
        ELSE IF g._scope = scope /\ Len(g._stack) > 1 THEN _flush(g)
        ELSE g

\* A slip: the frame is not flushed at the end of its scope.
_end_NoFlush(f, scope, token) == _add(f, token)

\* Add the given token and flush the current frame if the scopes match
_end(f, scope, token) ==
    LET g == _add(f, token)
    IN  IF g._scope = scope /\ Len(g._stack) > 1 THEN _flush(g) ELSE g

\* A slip: at operator scope BT, ET, q and Q end an operator like any word.
handleWord_MarkersEnd(f, token) ==
    IF f._scope = s_operator THEN _end(f, s_operator, token)
    ELSE CASE token.value = BT -> _start(f, s_text_object, token)
           [] token.value = ET -> _end(f, s_text_object, token)
           [] token.value = q -> _start(f, s_graphics_state, token)
           [] token.value = Q -> _end(f, s_graphics_state, token)
           [] OTHER -> _end(f, s_operator, token)

\* A slip: ET starts a text object instead of ending one.
handleWord_EndStarts(f, token) ==
    CASE token.value = BT -> _start(f, s_text_object, token)
      [] token.value = ET -> _start(f, s_text_object, token)
      [] token.value = q -> _start(f, s_graphics_state, token)
      [] token.value = Q -> _end(f, s_graphics_state, token)
      [] OTHER -> _end(f, s_operator, token)

handleWord(f, token) ==
    CASE token.value = BT -> _start(f, s_text_object, token)
      [] token.value = ET -> _end(f, s_text_object, token)
      [] token.value = q -> _start(f, s_graphics_state, token)
      [] token.value = Q -> _end(f, s_graphics_state, token)
      [] OTHER -> _end(f, s_operator, token)

\* A slip: the trim flag stays set after a white-space token is dropped.
handleSpace_KeepTrim(f, token) ==
    IF ~f._trim
    THEN _add(f, token)
    ELSE [f EXCEPT !.dropped = @ \cup {f.n}]

handleSpace(f, token) ==
    IF ~f._trim
    THEN [_add(f, token) EXCEPT !._trim = FALSE]
    ELSE [f EXCEPT !._trim = FALSE, !.dropped = @ \cup {f.n}]

\* A slip: at match scope the string is added as it came.
handleToken_NoReplace(f0, token) ==
    LET f == [f0 EXCEPT !.n = @ + 1]
    IN  CASE token.type = tt_word -> handleWord(f, token)
          [] token.type = tt_space -> handleSpace(f, token)
          [] token.type = tt_string /\ f._scope = s_match ->
                _add(f, StringToken(token.value))
          [] OTHER -> _start(f, s_operator, token)

\* A slip: no break after the match-scope case, which falls into default.
handleToken_FallThrough(f0, token) ==
    LET f == [f0 EXCEPT !.n = @ + 1]
    IN  CASE token.type = tt_word -> handleWord(f, token)
          [] token.type = tt_space -> handleSpace(f, token)
          [] token.type = tt_string /\ f._scope = s_match ->
                _start(_add(f, StringToken(regex_replace(token.value, f._regex))),
                       s_operator, token)
          [] OTHER -> _start(f, s_operator, token)

handleToken(f0, token) ==
    LET f == [f0 EXCEPT !.n = @ + 1]
    IN  CASE token.type = tt_word -> handleWord(f, token)
          [] token.type = tt_space -> handleSpace(f, token)
          [] token.type = tt_string /\ f._scope = s_match ->
                _add(f, StringToken(regex_replace(token.value, f._regex)))
          [] OTHER -> _start(f, s_operator, token)

\* A slip: if instead of while, one frame is flushed.
handleEOF_Once(f) == IF Len(f._stack) > 1 THEN _flush(f) ELSE f

RECURSIVE handleEOF(_)
handleEOF(f) == IF Len(f._stack) > 1 THEN handleEOF(_flush(f)) ELSE f

\* Get final raw stream data
data(f) == f._stack[1].first

\* A slip: the text left in the root frame is not tested.
redact_FlagOnly(f) == f._redact

\* Test final text for redaction
redact(f) == f._redact \/ regex_search(f._stack[1].second, f._regex)

\* obj.filterAsContents(&filter): every token of the stream, then the end.
RECURSIVE filterAsContents(_, _)
filterAsContents(f, tokens) ==
    IF tokens = <<>> THEN handleEOF(f)
    ELSE filterAsContents(handleToken(f, Head(tokens)), Tail(tokens))

(***************************************************************************)
(* The body of the loop of redactPage for one content stream, given as its *)
(* bytes: what the walker does with the stream ("return" true, "omit" it   *)
(* from the contents, or "keep" it) and the bytes the stream then holds.   *)
(***************************************************************************)
\* A slip: at page scope the loop goes on to the next stream.
redactSwitch_PageContinues(scope, f, bytes) ==
    IF redact(f)
    THEN CASE scope = s_page -> [action |-> "omit", data |-> bytes]
           [] scope = s_stream -> [action |-> "omit", data |-> bytes]
           [] OTHER -> [action |-> "keep", data |-> Bytes(data(f))]
    ELSE [action |-> "keep", data |-> bytes]

\* A slip: the case of stream scope is missing and falls to the default.
redactSwitch_NoStreamCase(scope, f, bytes) ==
    IF redact(f)
    THEN CASE scope = s_page -> [action |-> "return", data |-> bytes]
           [] OTHER -> [action |-> "keep", data |-> Bytes(data(f))]
    ELSE [action |-> "keep", data |-> bytes]

redactSwitch(scope, f, bytes) ==
    IF redact(f)
    THEN CASE scope = s_page -> [action |-> "return", data |-> bytes]
           [] scope = s_stream -> [action |-> "omit", data |-> bytes]
           [] OTHER -> [action |-> "keep", data |-> Bytes(data(f))]
    ELSE [action |-> "keep", data |-> bytes]

redactStream(regex, scope, bytes) ==
    redactSwitch(scope, filterAsContents(Filter(regex, scope), Tokenizer(bytes)), bytes)

(***************************************************************************)
(* The tokens and regular expressions the model delivers.                  *)
(***************************************************************************)
Patterns == {<<"a", "b">>}

Words == {WordToken(BT), WordToken(ET), WordToken(q), WordToken(Q), WordToken(Tj)}

Strings == {StringToken(<<"a">>), StringToken(<<"b">>), StringToken(<<"a", "b">>),
            StringToken(<<"a", "a", "b", "b">>), HexStringToken(<<"a">>)}

Tokens == Words \cup Strings \cup {SpaceToken, ArrayOpenToken}

(***************************************************************************)
(* The document of the walker and the driver: two pages, their content     *)
(* streams, and two form XObjects that pages and forms may name in their   *)
(* resources (a form may name itself).  A form is its own content stream.  *)
(***************************************************************************)
PageIds == {"p1", "p2"}
FormIds == {"f1", "f2"}
StreamIds == {"s1", "s2", "s3"}

AllPages == <<"p1", "p2">>
PageContents == [p \in PageIds |-> IF p = "p1" THEN <<"s1", "s2">> ELSE <<"s3">>]

\* The streams a document may hold: (ab) Tj, (a) Tj and (aabb) Tj.
StreamPool ==
    {Bytes(<<StringToken(v), SpaceToken, WordToken(Tj)>>) :
        v \in {<<"a", "b">>, <<"a">>, <<"a", "a", "b", "b">>}}

\* The form XObjects each unit may name in its resources.
XObjectChoices ==
    [p1 : {<<>>, <<"f1">>, <<"f1", "f2">>},
     p2 : {<<>>, <<"f2">>},
     f1 : {<<>>, <<"f2">>, <<"f1">>},
     f2 : {<<>>, <<"f1">>}]

\* Deepest nesting of redactPage calls the model follows.
MaxDepth == 4

VARIABLES
    filter,      \* the Filter instance
    input,       \* the tokens delivered to it so far
    pc,          \* "tokens" while tokens are delivered, "eof" after handleEOF
    args,        \* args_t: regex and scope
    pages,       \* the pages of the document, in order
    contents,    \* /Contents of each page: its content streams, in order
    streamData,  \* the bytes of each content stream and form
    xobjects,    \* the form XObjects in the resources of each page and form
    callStack,   \* the calls of redactPage in progress, innermost last
    ret,         \* the value a call of redactPage has just returned
    pageIdx,     \* the page the loop of main is at
    mainpc,      \* where main is
    original,    \* the bytes every stream had when the run began
    last,        \* the stream redactPage filtered last, before and after
    argv,        \* the command line after argv[0], each argument its characters
    argi,        \* the argument the loop of parseArgs is at
    exitCode,    \* the exit status of the process, "none" while it runs
    stderr,      \* the diagnostics written to the error stream
    files,       \* what every path of the file system holds
    opened       \* the paths the run has opened, to read or to write

filterVars == <<filter, input, pc>>
docVars == <<args, pages, contents, streamData, xobjects, callStack, ret,
             pageIdx, mainpc, original, last>>
mainVars == <<argv, argi, exitCode, stderr, files, opened>>
vars == <<filterVars, docVars, mainVars>>

NoLast == [obj |-> "none", before |-> <<>>, output |-> <<>>,
           verdict |-> FALSE, kept |-> FALSE]

(***************************************************************************)
(* One Filter instance at work: filterAsContents delivers the tokens of a  *)
(* stream one by one and then the end of the stream.                       *)
(***************************************************************************)
NoMain ==
    /\ argv = <<>>
    /\ argi = 0
    /\ exitCode = "none"
    /\ stderr = <<>>
    /\ files = <<>>
    /\ opened = {}

NoDocument ==
    /\ args = [regex |-> <<>>, scope |-> s_match]
    /\ pages = <<>>
    /\ contents = <<>>
    /\ streamData = <<>>
    /\ xobjects = <<>>
    /\ callStack = <<>>
    /\ ret = "none"
    /\ pageIdx = 0
    /\ mainpc = "idle"
    /\ original = <<>>
    /\ last = NoLast

Init ==
    /\ filter \in {Filter(re, sc) : re \in Patterns, sc \in Scopes}
    /\ input = <<>>
    /\ pc = "tokens"
    /\ NoDocument
    /\ NoMain

HandleToken ==
    /\ pc = "tokens"
    /\ Len(input) < MaxTokens
    /\ \E token \in Tokens :
          /\ filter' = handleToken(filter, token)
          /\ input' = Append(input, token)
    /\ pc' = pc
    /\ UNCHANGED <<docVars, mainVars>>

HandleEOF ==
    /\ pc = "tokens"
    /\ filter' = handleEOF(filter)
    /\ pc' = "eof"
    /\ input' = input
    /\ UNCHANGED <<docVars, mainVars>>

Next == HandleToken \/ HandleEOF

Spec == Init /\ [][Next]_vars

(***************************************************************************)
(* One Filter instance on longer streams of fewer kinds of token: the      *)
(* words BT, ET, q, Q and Tj, the string (ab) and white space.             *)
(***************************************************************************)
\* Longest such stream.
MaxStream == 5

StreamTokens ==
    {WordToken(BT), WordToken(ET), WordToken(q), WordToken(Q), WordToken(Tj),
     StringToken(<<"a", "b">>), SpaceToken}

HandleStreamToken ==
    /\ pc = "tokens"
    /\ Len(input) < MaxStream
    /\ \E token \in StreamTokens :
          /\ filter' = handleToken(filter, token)
          /\ input' = Append(input, token)
    /\ pc' = pc
    /\ UNCHANGED <<docVars, mainVars>>

StreamNext == HandleStreamToken \/ HandleEOF

SpecStream == Init /\ [][StreamNext]_vars

(***************************************************************************)
(* redactPage and the loop of main over the pages.  A call of redactPage   *)
(* is a record: the unit, the streams getContents gave, the index i of the *)
(* stream the loop is at, the vector contents, and the index k of the form *)
(* XObject the second loop is at.                                          *)
(***************************************************************************)
getContents(obj) == IF obj \in PageIds THEN contents[obj] ELSE <<obj>>

Call(obj) ==
    [unit |-> obj, objs |-> getContents(obj), i |-> 1, contents |-> <<>>,
     forms |-> xobjects[obj], k |-> 1, phase |-> "streams"]

Top == callStack[Len(callStack)]
Pop == SubSeq(callStack, 1, Len(callStack) - 1)
SetTop(call) == [callStack EXCEPT ![Len(callStack)] = call]

DocInit ==
    /\ filter = Filter(<<>>, s_match)
    /\ input = <<>>
    /\ pc = "idle"
    /\ args \in [regex : Patterns, scope : Scopes]
    /\ pages = AllPages
    /\ contents = PageContents
    /\ streamData \in [StreamIds \cup FormIds -> StreamPool]
    /\ xobjects \in XObjectChoices
    /\ callStack = <<>>
    /\ ret = "none"
    /\ pageIdx = 1
    /\ mainpc = "pages"
    /\ original = streamData
    /\ last = NoLast
    /\ NoMain

\* main: if (redactPage(args, page))
PageCall ==
    /\ mainpc = "pages" /\ callStack = <<>> /\ ret = "none"
    /\ pageIdx <= Len(AllPages)
    /\ callStack' = <<Call(AllPages[pageIdx])>>
    /\ UNCHANGED <<args, pages, contents, streamData, xobjects, ret, pageIdx,
                   mainpc, original, last>>

\* redactPage: one turn of the loop over the contents
FilterStream ==
    /\ mainpc = "pages" /\ callStack # <<>> /\ ret = "none"
    /\ Top.phase = "streams" /\ Top.i <= Len(Top.objs)
    /\ LET obj == Top.objs[Top.i]
           f == filterAsContents(Filter(args.regex, args.scope),
                                 Tokenizer(streamData[obj]))
           r == redactSwitch(args.scope, f, streamData[obj])
       IN  /\ last' = [obj |-> obj, before |-> streamData[obj],
                       output |-> Bytes(data(f)), verdict |-> redact(f),
                       kept |-> r.action = "keep"]
           /\ streamData' = [streamData EXCEPT ![obj] = r.data]
           /\ IF r.action = "return"
              THEN callStack' = Pop /\ ret' = "true"
              ELSE /\ ret' = ret
                   /\ callStack' = SetTop(
                         [Top EXCEPT !.i = @ + 1,
                                     !.contents = IF r.action = "keep"
                                                  THEN Append(@, obj) ELSE @])
    /\ UNCHANGED <<args, pages, contents, xobjects, pageIdx, mainpc, original>>

\* A slip: a form whose stream was left out is emptied.
setContents_FormEmptied ==
    /\ mainpc = "pages" /\ callStack # <<>> /\ ret = "none"
    /\ Top.phase = "streams" /\ Top.i > Len(Top.objs)
    /\ contents' = IF Top.unit \in PageIds
                   THEN [contents EXCEPT ![Top.unit] = Top.contents]
                   ELSE contents
    /\ streamData' = IF Top.unit \in FormIds /\ Top.contents = <<>>
                     THEN [streamData EXCEPT ![Top.unit] = <<>>]
                     ELSE streamData
    /\ callStack' = SetTop([Top EXCEPT !.phase = "forms"])
    /\ UNCHANGED <<args, pages, xobjects, ret, pageIdx, mainpc, original, last>>

\* A slip: the contents that were kept are not put back on the page.
setContents_NotStored ==
    /\ mainpc = "pages" /\ callStack # <<>> /\ ret = "none"
    /\ Top.phase = "streams" /\ Top.i > Len(Top.objs)
    /\ callStack' = SetTop([Top EXCEPT !.phase = "forms"])
    /\ UNCHANGED <<args, pages, contents, streamData, xobjects, ret, pageIdx,
                   mainpc, original, last>>

\* redactPage: setContents(object, contents), a no-op for a form XObject
setContents ==
    /\ mainpc = "pages" /\ callStack # <<>> /\ ret = "none"
    /\ Top.phase = "streams" /\ Top.i > Len(Top.objs)
    /\ contents' = IF Top.unit \in PageIds
                   THEN [contents EXCEPT ![Top.unit] = Top.contents]
                   ELSE contents
    /\ callStack' = SetTop([Top EXCEPT !.phase = "forms"])
    /\ UNCHANGED <<args, pages, streamData, xobjects, ret, pageIdx, mainpc,
                   original, last>>

\* redactPage: if (redactPage(args, form))
FormCall ==
    /\ mainpc = "pages" /\ callStack # <<>> /\ ret = "none"
    /\ Top.phase = "forms" /\ Top.k <= Len(Top.forms)
    /\ Len(callStack) < MaxDepth
    /\ callStack' = Append(callStack, Call(Top.forms[Top.k]))
    /\ UNCHANGED <<args, pages, contents, streamData, xobjects, ret, pageIdx,
                   mainpc, original, last>>

\* The recursion has gone deeper than the model follows it.
TooDeep ==
    /\ mainpc = "pages" /\ callStack # <<>> /\ ret = "none"
    /\ Top.phase = "forms" /\ Top.k <= Len(Top.forms)
    /\ Len(callStack) >= MaxDepth
    /\ mainpc' = "toodeep"
    /\ UNCHANGED <<args, pages, contents, streamData, xobjects, callStack, ret,
                   pageIdx, original, last>>

\* redactPage: return false
ReturnFalse ==
    /\ mainpc = "pages" /\ callStack # <<>> /\ ret = "none"
    /\ Top.phase = "forms" /\ Top.k > Len(Top.forms)
    /\ callStack' = Pop
    /\ ret' = "false"
    /\ UNCHANGED <<args, pages, contents, streamData, xobjects, pageIdx, mainpc,
                   original, last>>

\* A slip: the value the call on a form returned is not looked at.
FormReturned_Ignored ==
    /\ mainpc = "pages" /\ callStack # <<>> /\ ret # "none"
    /\ callStack' = SetTop([Top EXCEPT !.k = @ + 1]) /\ ret' = "none"
    /\ UNCHANGED <<args, pages, contents, streamData, xobjects, pageIdx, mainpc,
                   original, last>>

\* redactPage: the call on a form is back: return true, or the next form
FormReturned ==
    /\ mainpc = "pages" /\ callStack # <<>> /\ ret # "none"
    /\ IF ret = "true"
       THEN callStack' = Pop /\ ret' = ret
       ELSE callStack' = SetTop([Top EXCEPT !.k = @ + 1]) /\ ret' = "none"
    /\ UNCHANGED <<args, pages, contents, streamData, xobjects, pageIdx, mainpc,
                   original, last>>

\* A slip: a page left without contents is removed as well.
PageReturned_RemoveEmpty ==
    /\ mainpc = "pages" /\ callStack = <<>> /\ ret # "none"
    /\ pages' = IF ret = "true" \/ contents[AllPages[pageIdx]] = <<>>
                THEN SelectSeq(pages, LAMBDA p : p # AllPages[pageIdx])
                ELSE pages
    /\ pageIdx' = pageIdx + 1
    /\ ret' = "none"
    /\ UNCHANGED <<args, contents, streamData, xobjects, callStack, mainpc,
                   original, last>>

\* main: doc.removePage(page) when redactPage returned true; the next page
PageReturned ==
    /\ mainpc = "pages" /\ callStack = <<>> /\ ret # "none"
    /\ pages' = IF ret = "true"
                THEN SelectSeq(pages, LAMBDA p : p # AllPages[pageIdx])
                ELSE pages
    /\ pageIdx' = pageIdx + 1
    /\ ret' = "none"
    /\ UNCHANGED <<args, contents, streamData, xobjects, callStack, mainpc,
                   original, last>>

\* main: the loop over the pages is over
PagesDone ==
    /\ mainpc = "pages" /\ callStack = <<>> /\ ret = "none"
    /\ pageIdx > Len(AllPages)
    /\ mainpc' = "done"
    /\ UNCHANGED <<args, pages, contents, streamData, xobjects, callStack, ret,
                   pageIdx, original, last>>

DocNext ==
    \/ (PageCall /\ UNCHANGED <<filterVars, mainVars>>)
    \/ (FilterStream /\ UNCHANGED <<filterVars, mainVars>>)
    \/ (setContents /\ UNCHANGED <<filterVars, mainVars>>)
    \/ (FormCall /\ UNCHANGED <<filterVars, mainVars>>)
    \/ (TooDeep /\ UNCHANGED <<filterVars, mainVars>>)
    \/ (ReturnFalse /\ UNCHANGED <<filterVars, mainVars>>)
    \/ (FormReturned /\ UNCHANGED <<filterVars, mainVars>>)
    \/ (PageReturned /\ UNCHANGED <<filterVars, mainVars>>)
    \/ (PagesDone /\ UNCHANGED <<filterVars, mainVars>>)

SpecDoc == DocInit /\ [][DocNext]_vars

(***************************************************************************)
(* parseArgs and main: the command line, then the document read from the   *)
(* input path, redacted, written, and in place of the input when no output *)
(* path was given.  An argument is the sequence of its characters; a null  *)
(* pointer of args_t is the empty sequence.  A path holds "original" (the  *)
(* document as it was), "rewritten" (the whole redacted document),         *)
(* "partial" (a file being written) or is "absent".                        *)
(***************************************************************************)
\* Most arguments after argv[0] on a command line.
MaxArgs == 4

NULL == <<>>

\* A slip: the flags of operator and text-object scope change places.
SCOPE_FLAGS_Swapped == <<"m", "t", "o", "q", "s", "p">>

\* Argument flags used to set scope; index matches enum
SCOPE_FLAGS == <<"m", "o", "t", "q", "s", "p">>

\* string::npos, the value of size_t with every bit set.
npos == -1

\* Stands for 4294967295: npos cut to the 32 bits of an unsigned enum.
npos_truncated == 2147483647

\* std::string::find(char): the index from 0 of the character, or npos.
find(str, c) ==
    IF \E i \in 1..Len(str) : str[i] = c
    THEN (CHOOSE i \in 1..Len(str) : str[i] = c) - 1
    ELSE npos

\* (scope_t)pos.  A value outside the range of the enumeration is undefined
\* behaviour: with a signed underlying type it stays npos in the comparison
\* that follows, with an unsigned one it is cut and no longer equals npos.
scope_cast(pos) == IF pos \in Scopes THEN {pos} ELSE {npos, npos_truncated}

\* argv[i][1]: the character after the dash, the terminator when none.
FlagChar(a) == IF Len(a) >= 2 THEN a[2] ELSE "NUL"

\* One turn of the loop of parseArgs on the argument a: the outcomes, each
\* the arguments as the turn leaves them and whether usage was called.
parseArg(a, parsed) ==
    IF a[1] = "-"
    THEN {[args |-> [parsed EXCEPT !.scope = sc], usage |-> sc = npos] :
             sc \in scope_cast(find(SCOPE_FLAGS, FlagChar(a)))}
    ELSE IF parsed.regex = NULL
         THEN {[args |-> [parsed EXCEPT !.regex = a], usage |-> FALSE]}
    ELSE IF parsed.infile = NULL
         THEN {[args |-> [parsed EXCEPT !.infile = a], usage |-> FALSE]}
    ELSE IF parsed.outfile = NULL
         THEN {[args |-> [parsed EXCEPT !.outfile = a], usage |-> FALSE]}
    ELSE {[args |-> parsed, usage |-> TRUE]}

Flags == {<<"-", c>> : c \in {"m", "o", "t", "q", "s", "p", "x"}} \cup {<<"-">>}
Positionals == {<<"r">>, <<"f">>, <<"g">>}
Arguments == Flags \cup Positionals

Temporary(path) == path \o <<"~">>
Paths == Positionals \cup {Temporary(p) : p \in Positionals}

\* The file system before the run: the document is at the path f.
InitFiles == [p \in Paths |-> IF p = <<"f">> THEN "original" ELSE "absent"]

RECURSIVE ArgLists(_)
ArgLists(n) ==
    IF n = 0 THEN {<<>>}
    ELSE LET shorter == ArgLists(n - 1)
         IN  shorter \cup {Append(l, a) : l \in {x \in shorter : Len(x) = n - 1},
                                           a \in Arguments}

\* main: args_t args{}
MainInit ==
    /\ filter = Filter(<<>>, s_match)
    /\ input = <<>>
    /\ pc = "idle"
    /\ args = [regex |-> NULL, infile |-> NULL, outfile |-> NULL, scope |-> s_match]
    /\ pages = <<>>
    /\ contents = <<>>
    /\ streamData = <<>>
    /\ xobjects = <<>>
    /\ callStack = <<>>
    /\ ret = "none"
    /\ pageIdx = 0
    /\ mainpc = "parseArgs"
    /\ original = <<>>
    /\ last = NoLast
    /\ argv \in ArgLists(MaxArgs)
    /\ argi = 1
    /\ exitCode = "none"
    /\ stderr = <<>>
    /\ files = InitFiles
    /\ opened = {}

\* usage: the usage line on the error stream, exit(2)
usage ==
    /\ stderr' = Append(stderr, "usage")
    /\ exitCode' = 2
    /\ mainpc' = "exit"

\* parseArgs: one turn of the loop over the arguments
ParseArg ==
    /\ mainpc = "parseArgs" /\ argi <= Len(argv)
    /\ \E r \in parseArg(argv[argi], args) :
          /\ args' = r.args
          /\ argi' = argi + 1
          /\ IF r.usage THEN usage
             ELSE UNCHANGED <<stderr, exitCode, mainpc>>
    /\ UNCHANGED <<argv, files, opened>>

\* A slip: the input path is not asked for.
ParseEnd_RegexOnly ==
    /\ mainpc = "parseArgs" /\ argi > Len(argv)
    /\ IF args.regex = NULL
       THEN usage
       ELSE mainpc' = "processFile" /\ UNCHANGED <<stderr, exitCode>>
    /\ UNCHANGED <<args, argv, argi, files, opened>>

\* parseArgs: if (!args.regex || !args.infile) usage(args), or back to main
ParseEnd ==
    /\ mainpc = "parseArgs" /\ argi > Len(argv)
    /\ IF args.regex = NULL \/ args.infile = NULL
       THEN usage
       ELSE mainpc' = "processFile" /\ UNCHANGED <<stderr, exitCode>>
    /\ UNCHANGED <<args, argv, argi, files, opened>>

\* main: pdf.processFile(args.infile), on a path that holds a document
ProcessFile ==
    /\ mainpc = "processFile"
    /\ args.infile \in Paths /\ files[args.infile] \in {"original", "rewritten"}
    /\ opened' = opened \cup {args.infile}
    /\ mainpc' = "pages"
    /\ UNCHANGED <<args, argv, argi, exitCode, stderr, files>>

\* main: the loop over the pages and removeUnreferencedResources, in memory
RedactPages ==
    /\ mainpc = "pages"
    /\ mainpc' = "write"
    /\ UNCHANGED <<args, argv, argi, exitCode, stderr, files, opened>>

\* The path main writes to: the output path, or the input path with a tilde.
outfile == IF args.outfile # NULL THEN args.outfile ELSE Temporary(args.infile)

\* main: QPDFWriter writer(pdf, outfile) opens the path and empties it
WriterOpen ==
    /\ mainpc = "write"
    /\ files' = [files EXCEPT ![outfile] = "partial"]
    /\ opened' = opened \cup {outfile}
    /\ mainpc' = "writing"
    /\ UNCHANGED <<args, argv, argi, exitCode, stderr>>

\* main: writer.write() has written the whole document
WriterWrite ==
    /\ mainpc = "writing"
    /\ files' = [files EXCEPT ![outfile] = "rewritten"]
    /\ mainpc' = IF args.outfile = NULL THEN "remove" ELSE "return"
    /\ UNCHANGED <<args, argv, argi, exitCode, stderr, opened>>

\* main: pdf.closeInputSource(); QUtil::remove_file(args.infile)
RemoveFile ==
    /\ mainpc = "remove"
    /\ files' = [files EXCEPT ![args.infile] = "absent"]
    /\ mainpc' = "rename"
    /\ UNCHANGED <<args, argv, argi, exitCode, stderr, opened>>

\* main: QUtil::rename_file(outfile.c_str(), args.infile)
RenameFile ==
    /\ mainpc = "rename"
    /\ files' = [files EXCEPT ![args.infile] = files[outfile], ![outfile] = "absent"]
    /\ mainpc' = "return"
    /\ UNCHANGED <<args, argv, argi, exitCode, stderr, opened>>

\* main: a step of the try block throws; the diagnostic, exit(2)
Catch ==
    /\ mainpc \in {"processFile", "pages", "write", "writing", "remove", "rename"}
    /\ stderr' = Append(stderr, "error")
    /\ exitCode' = 2
    /\ mainpc' = "exit"
    /\ UNCHANGED <<args, argv, argi, files, opened>>

\* main: return 0
Return ==
    /\ mainpc = "return"
    /\ exitCode' = 0
    /\ mainpc' = "exit"
    /\ UNCHANGED <<args, argv, argi, stderr, files, opened>>

mainUnchanged ==
    UNCHANGED <<filterVars, pages, contents, streamData, xobjects, callStack,
                ret, pageIdx, original, last>>

MainNext ==
    \/ (ParseArg /\ mainUnchanged)
    \/ (ParseEnd /\ mainUnchanged)
    \/ (ProcessFile /\ mainUnchanged)
    \/ (RedactPages /\ mainUnchanged)
    \/ (WriterOpen /\ mainUnchanged)
    \/ (WriterWrite /\ mainUnchanged)
    \/ (RemoveFile /\ mainUnchanged)
    \/ (RenameFile /\ mainUnchanged)
    \/ (Catch /\ mainUnchanged)
    \/ (Return /\ mainUnchanged)

SpecMain == MainInit /\ [][MainNext]_vars

(***************************************************************************)
(* Reading the delivered token sequence, for the properties below.         *)
(***************************************************************************)
Min(S) == CHOOSE x \in S : \A y \in S : x <= y
Max(S) == CHOOSE x \in S : \A y \in S : x >= y

\* The output of the filter: positions and raw bytes of the pieces of data().
OutPos == [i \in 1..Len(data(filter)) |-> data(filter)[i].pos]
OutSet == Positions(data(filter))
OutRaw == [i \in 1..Len(data(filter)) |-> data(filter)[i].raw]
Increasing(seq) == \A i, j \in 1..Len(seq) : i < j => seq[i] < seq[j]

\* The pieces of the output are input tokens, byte for byte and in order.
OutputIsSubsequence ==
    /\ Increasing(OutPos)
    /\ \A i \in 1..Len(OutPos) : OutRaw[i] = input[OutPos[i]].raw

IsWord(tok, w) == tok.type = tt_word /\ tok.value = w
IsMarker(tok) == tok.type = tt_word /\ tok.value \in {BT, ET, q, Q}
IsOperand(tok) == tok.type \notin {tt_word, tt_space}

\* The text of the string tokens among s[i..j], concatenated.
RECURSIVE TextOf(_, _, _)
TextOf(s, i, j) ==
    IF i > j THEN <<>>
    ELSE (IF s[i].type = tt_string THEN s[i].value ELSE <<>>) \o TextOf(s, i + 1, j)

\* The operator that ends with the word at j starts at its first operand:
\* the first token after the previous word that is neither word nor space.
OperatorStart(s, j) ==
    LET prev == Max({0} \cup {i \in 1..(j - 1) : s[i].type = tt_word})
        operands == {i \in (prev + 1)..(j - 1) : IsOperand(s[i])}
    IN  IF operands = {} THEN j ELSE Min(operands)

\* BT, ET, q and Q take no operands.
MarkersBare(s) == \A j \in 1..Len(s) : IsMarker(s[j]) => OperatorStart(s, j) = j

\* The end of the block opened at i - 1 by the marker `open`: the position of
\* the `close` that balances it, or one past the stream when none does.
RECURSIVE CloseOf(_, _, _, _, _)
CloseOf(s, open, close, k, depth) ==
    IF k > Len(s) THEN Len(s) + 1
    ELSE IF IsWord(s[k], close)
         THEN IF depth = 1 THEN k ELSE CloseOf(s, open, close, k + 1, depth - 1)
    ELSE IF IsWord(s[k], open) THEN CloseOf(s, open, close, k + 1, depth + 1)
    ELSE CloseOf(s, open, close, k + 1, depth)

BlockEnd(s, open, close, i) == CloseOf(s, open, close, i + 1, 1)

\* The text a block accumulates from k up to its end j: its own strings and
\* the text of the inner blocks that are not themselves removed.
RECURSIVE BlockText(_, _, _, _, _, _)
BlockText(s, re, open, close, k, j) ==
    IF k >= j \/ k > Len(s) THEN <<>>
    ELSE IF IsWord(s[k], open)
         THEN LET m == BlockEnd(s, open, close, k)
                  inner == BlockText(s, re, open, close, k + 1, m)
              IN  (IF regex_search(inner, re) THEN <<>> ELSE inner)
                  \o BlockText(s, re, open, close, m + 1, j)
    ELSE (IF s[k].type = tt_string THEN s[k].value ELSE <<>>)
         \o BlockText(s, re, open, close, k + 1, j)

\* The block opened at i is one whose accumulated text matches.
BlockMatches(s, re, open, close, i) ==
    /\ IsWord(s[i], open)
    /\ regex_search(BlockText(s, re, open, close, i + 1, BlockEnd(s, open, close, i)), re)

\* Position p lies in a block whose accumulated text matches.
InMatchingBlock(s, re, open, close, p) ==
    \E i \in 1..p : /\ BlockMatches(s, re, open, close, i)
                    /\ p <= BlockEnd(s, open, close, i)

(***************************************************************************)
(* C3. Operator scope: an operator (its operands, the white space between  *)
(* them and its name) whose string operands, concatenated, match the       *)
(* regular expression is absent from the output; an operator whose text    *)
(* does not match is in the output; one matching operator alone leaves the *)
(* output empty.                                                           *)
(***************************************************************************)
OperatorRemoved(j) ==
    \A p \in OperatorStart(input, j)..j : p \notin OutSet

OperatorKept(j) ==
    \A p \in OperatorStart(input, j)..j :
        \E i \in 1..Len(OutPos) : OutPos[i] = p /\ OutRaw[i] = input[p].raw

OperatorMatches(j) ==
    regex_search(TextOf(input, OperatorStart(input, j), j), filter._regex)

C4_TextObjectScope ==
    (pc = "eof" /\ filter._scope = s_text_object) =>
        /\ \A i \in 1..Len(input) :
              BlockMatches(input, filter._regex, BT, ET, i) =>
                 \A p \in i..BlockEnd(input, BT, ET, i) : p \notin OutSet
        /\ \A p \in 1..Len(input) :
              (/\ input[p].type # tt_space
               /\ ~InMatchingBlock(input, filter._regex, BT, ET, p)) => p \in OutSet
        /\ OutputIsSubsequence

\* A closed block is removed and a token after it is emitted.
C4_Witness ==
    /\ pc = "eof" /\ filter._scope = s_text_object
    /\ \E i \in 1..Len(input) :
          /\ BlockMatches(input, filter._regex, BT, ET, i)
          /\ BlockEnd(input, BT, ET, i) < Len(input)
          /\ i \notin OutSet /\ BlockEnd(input, BT, ET, i) \notin OutSet
          /\ Len(input) \in OutSet

(***************************************************************************)
(* C9. At most one white-space token is absorbed after a discarded frame,  *)
(* and only the token delivered right after the discard: every other       *)
(* white-space token is appended to a frame.                               *)
(***************************************************************************)
StackPositions ==
    UNION {Positions(filter._stack[k].first) : k \in 1..Len(filter._stack)}

\* Token p was appended: its bytes are in a frame, or went with one.
Appended(p) == p \in StackPositions \cup filter.discarded

C9_OneSpaceAbsorbed ==
    \A p \in 1..Len(input) :
        input[p].type = tt_space =>
           /\ ~Appended(p) => (p > 1 /\ p - 1 \in filter.redactedAt)
           /\ (p > 1 /\ input[p - 1].type = tt_space) => Appended(p)
           /\ (p > 1 /\ p - 1 \notin filter.redactedAt) => Appended(p)
           /\ p = 1 => Appended(p)

\* After a discard one white-space token is absorbed and the next is appended.
C9_Witness ==
    \E p \in 2..Len(input) :
        /\ input[p].type = tt_space /\ input[p - 1].type = tt_space
        /\ p - 2 \in filter.redactedAt
        /\ ~Appended(p - 1) /\ Appended(p)

(***************************************************************************)
(* C6. A stream in which nothing matches.  Original statement: at every    *)
(* scope the output of the filter is the raw bytes of the input tokens, in *)
(* order, no white space is dropped, the verdict is negative and the       *)
(* walker keeps the stream.                                                *)
(***************************************************************************)
NothingMatches(s, re) ==
    \A i, j \in 1..Len(s) : i <= j => ~regex_search(TextOf(s, i, j), re)

InRaw == [i \in 1..Len(input) |-> input[i].raw]

\* The raw bytes each token has once its string is written again from its text.
InRewritten ==
    [i \in 1..Len(input) |->
        IF input[i].type = tt_string THEN Unparse(input[i].value) ELSE input[i].raw]

StreamKeptUnchanged ==
    redactSwitch(filter._scope, filter, Bytes(input))
        = [action |-> "keep", data |-> Bytes(input)]

C6_Original ==
    (pc = "eof" /\ NothingMatches(input, filter._regex)) =>
        /\ OutRaw = InRaw
        /\ filter.dropped = {}
        /\ ~redact(filter)
        /\ StreamKeptUnchanged

(***************************************************************************)
(* C6, amended.  At every scope but match the output is the raw bytes of   *)
(* the input tokens in order; at match scope it is those bytes with every  *)
(* string token written again in literal form from its unchanged text.  At *)
(* every scope no white space is dropped, the verdict is negative and the  *)
(* walker keeps the stream with the bytes it had.                          *)
(***************************************************************************)
C6_NonMatchingStream ==
    (pc = "eof" /\ NothingMatches(input, filter._regex)) =>
        /\ filter._scope # s_match => OutRaw = InRaw
        /\ filter._scope = s_match => OutRaw = InRewritten
        /\ filter.dropped = {}
        /\ ~redact(filter)
        /\ StreamKeptUnchanged

\* A hexadecimal string that does not match is written again at match scope.
C6_Witness ==
    /\ pc = "eof" /\ NothingMatches(input, filter._regex)
    /\ filter._scope = s_match
    /\ \E i \in 1..Len(input) : input[i] = HexStringToken(<<"a">>)
    /\ \E i \in 1..Len(input) : input[i].type = tt_space
    /\ OutRaw # InRaw
    /\ StreamKeptUnchanged

(***************************************************************************)
(* C7. Original statement: for scopes S1 < S2, whatever is removed from a  *)
(* stream at S1 is removed at S2.  What a run removes: every token when    *)
(* the stream is omitted or the page dropped; at match scope the string    *)
(* tokens that lose a matched substring; otherwise the tokens that are not *)
(* in the output.                                                          *)
(***************************************************************************)
Removed(f, s) ==
    IF redactSwitch(f._scope, f, Bytes(s)).action # "keep" THEN 1..Len(s)
    ELSE IF f._scope = s_match
         THEN {p \in 1..Len(s) : \E i \in 1..Len(data(f)) :
                  /\ data(f)[i].pos = p
                  /\ s[p].type = tt_string
                  /\ data(f)[i].raw # Unparse(s[p].value)}
    ELSE (1..Len(s)) \ Positions(data(f))

RemovedAt(scope, re, s) == Removed(filterAsContents(Filter(re, scope), s), s)

MatchPass(re, bytes) == redactStream(re, s_match, bytes).data

C8_Original ==
    (pc = "eof" /\ filter._scope = s_match) =>
        LET first == MatchPass(filter._regex, Bytes(input))
        IN  MatchPass(filter._regex, first) = first

(***************************************************************************)
(* C8, amended.  When no string token of the stream the first pass left    *)
(* matches any more, a second pass at match scope gives that stream again, *)
(* and so does the filter run on its own output.                           *)
(***************************************************************************)
NoTokenMatches(s, re) ==
    \A i \in 1..Len(s) : s[i].type = tt_string => ~regex_search(s[i].value, re)

FilterPass(re, bytes) ==
    Bytes(data(filterAsContents(Filter(re, s_match), Tokenizer(bytes))))

C8_IdempotentWhenNoMatchLeft ==
    (pc = "eof" /\ filter._scope = s_match) =>
        LET first == MatchPass(filter._regex, Bytes(input))
            out == FilterPass(filter._regex, Bytes(input))
        IN  /\ NoTokenMatches(Tokenizer(first), filter._regex) =>
                  MatchPass(filter._regex, first) = first
            /\ NoTokenMatches(Tokenizer(out), filter._regex) =>
                  FilterPass(filter._regex, out) = out

\* A first pass that changes the stream and leaves no matching token.
C8_Witness ==
    /\ pc = "eof" /\ filter._scope = s_match
    /\ ~NoTokenMatches(input, filter._regex)
    /\ LET first == MatchPass(filter._regex, Bytes(input))
       IN  /\ first # Bytes(input)
           /\ NoTokenMatches(Tokenizer(first), filter._regex)
           /\ MatchPass(filter._regex, first) = first

(***************************************************************************)
(* C10. The pattern matches no string token alone, only two adjacent ones  *)
(* together.  At match scope nothing is removed.  At operator scope the    *)
(* two tokens go with their operator when they are operands of the same    *)
(* one, and nothing is removed when every such pair is split between two   *)
(* operators.  At text-object and graphics-state scope the two tokens go   *)
(* when a block holds both with no marker between them, and nothing is     *)
(* removed from a stream without an opening marker.  At stream and page    *)
(* scope the stream is omitted, the page dropped.                          *)
(***************************************************************************)
\* p and r are string tokens with no string token between them.
AdjacentStrings(s, p, r) ==
    /\ p < r /\ s[p].type = tt_string /\ s[r].type = tt_string
    /\ \A k \in (p + 1)..(r - 1) : s[k].type # tt_string

SplitPair(s, re, p, r) ==
    /\ AdjacentStrings(s, p, r)
    /\ regex_search(s[p].value \o s[r].value, re)

SplitOnly(s, re) ==
    /\ NoTokenMatches(s, re)
    /\ \E p, r \in 1..Len(s) : SplitPair(s, re, p, r)

WordBetween(s, p, r) == \E k \in (p + 1)..(r - 1) : s[k].type = tt_word

\* A block opened before p is still open at r, and no marker lies between.
SameBlock(s, open, close, p, r) ==
    /\ \E i \in 1..(p - 1) : IsWord(s[i], open) /\ BlockEnd(s, open, close, i) > r
    /\ \A k \in (p + 1)..(r - 1) : ~IsWord(s[k], open) /\ ~IsWord(s[k], close)

C10_SplitAtBlockScope(open, close) ==
    /\ \A p, r \in 1..Len(input) :
          (/\ SplitPair(input, filter._regex, p, r)
           /\ SameBlock(input, open, close, p, r)) =>
              p \notin OutSet /\ r \notin OutSet
    /\ (\A i \in 1..Len(input) : ~IsWord(input[i], open)) => OutRaw = InRaw

C1_OutputBecomesContent ==
    (last.obj # "none" /\ args.scope < s_stream) =>
        /\ streamData[last.obj] = last.output
        /\ last.kept

(***************************************************************************)
(* C2. At match scope, once redactPage has filtered a stream, every string *)
(* token of the stored stream is the text of the token it had there with   *)
(* the matches removed, and every other token is as it was and where it    *)
(* was: (ab) Tj is stored as () Tj when the pattern is ab.                 *)
(***************************************************************************)
C2_MatchScopeStored ==
    (last.obj # "none" /\ args.scope = s_match) =>
        LET before == Tokenizer(last.before)
            stored == Tokenizer(streamData[last.obj])
        IN  /\ Len(stored) = Len(before)
            /\ \A i \in 1..Len(before) :
                  IF before[i].type = tt_string
                  THEN /\ stored[i].type = tt_string
                       /\ stored[i].value = regex_replace(before[i].value, args.regex)
                  ELSE stored[i] = before[i]

(***************************************************************************)
(* C5. At page scope, when the loop of main is over, the pages left in the *)
(* document are those with no positive verdict on any of their content     *)
(* streams or on a form XObject reachable from them; the page count has    *)
(* gone down by one for each page removed, and no stream and no /Contents  *)
(* of the document has changed.                                            *)
(***************************************************************************)
\* The pages and forms reachable from the units in `seen` by resources.
RECURSIVE Reachable(_)
Reachable(seen) ==
    LET more == seen \cup UNION {{xobjects[u][k] : k \in 1..Len(xobjects[u])} : u \in seen}
    IN  IF more = seen THEN seen ELSE Reachable(more)

StreamsOf(u) ==
    IF u \in PageIds THEN {PageContents[u][k] : k \in 1..Len(PageContents[u])} ELSE {u}

Verdict(bytes) ==
    redact(filterAsContents(Filter(args.regex, args.scope), Tokenizer(bytes)))

PatternPresent(page) ==
    \E u \in Reachable({page}) : \E obj \in StreamsOf(u) : Verdict(original[obj])

C5_PageScope ==
    (mainpc = "done" /\ args.scope = s_page) =>
        /\ pages = SelectSeq(AllPages, LAMBDA p : ~PatternPresent(p))
        /\ Len(pages) = Len(AllPages) - Cardinality({p \in PageIds : PatternPresent(p)})
        /\ streamData = original
        /\ contents = PageContents

\* One page goes for a match in a form of a form, the other page stays.
C5_Witness ==
    /\ mainpc = "done" /\ args.scope = s_page
    /\ pages = <<"p2">>
    /\ \A obj \in StreamsOf("p1") \cup {"f1"} : ~Verdict(original[obj])
    /\ xobjects["p1"] = <<"f1">> /\ xobjects["f1"] = <<"f2">>
    /\ Verdict(original["f2"])
    /\ xobjects["p2"] = <<>>

(***************************************************************************)
(* C11. At stream scope, the /Contents put back on a page are the streams  *)
(* of the page whose verdict is negative, in the order they had, every     *)
(* stream with a positive verdict is left out, and no stream's data has    *)
(* changed.                                                                *)
(***************************************************************************)
PageNumber(p) == CHOOSE i \in 1..Len(AllPages) : AllPages[i] = p

\* setContents has been called on the page p.
ContentsSet(p) ==
    \/ PageNumber(p) < pageIdx
    \/ /\ callStack # <<>>
       /\ callStack[1].unit = p
       /\ (callStack[1].phase = "forms" \/ Len(callStack) > 1)

C11_StreamScope ==
    args.scope = s_stream =>
        /\ streamData = original
        /\ \A p \in PageIds :
              ContentsSet(p) =>
                  contents[p] = SelectSeq(PageContents[p],
                                          LAMBDA obj : ~Verdict(original[obj]))

\* Of the two streams of the first page, the first is left out.
C11_Witness ==
    /\ args.scope = s_stream
    /\ ContentsSet("p1")
    /\ Verdict(original["s1"]) /\ ~Verdict(original["s2"])
    /\ contents["p1"] = <<"s2">>

(***************************************************************************)
(* C12. At page scope, the turn of the loop that finds a stream with a     *)
(* positive verdict returns true at once; while true is on its way back,   *)
(* every step hands it from a call to its caller, no stream is filtered,   *)
(* no form is entered, and the step after the outermost call removes the   *)
(* page.                                                                   *)
(***************************************************************************)
C12_DropStep ==
    /\ (/\ callStack # <<>> /\ ret = "none"
        /\ Top.phase = "streams" /\ Top.i <= Len(Top.objs)
        /\ Verdict(streamData[Top.objs[Top.i]])) =>
           (ret' = "true" /\ callStack' = Pop)
    /\ ret = "true" =>
          /\ last' = last /\ streamData' = streamData /\ contents' = contents
          /\ IF callStack # <<>>
             THEN callStack' = Pop /\ ret' = "true"
             ELSE /\ callStack' = <<>>
                  /\ pages' = SelectSeq(pages, LAMBDA p : p # AllPages[pageIdx])

C12_PageScopeDropsAtOnce ==
    [][(mainpc = "pages" /\ args.scope = s_page) => C12_DropStep]_vars

\* The first of two forms of a page has returned true: the second is not entered.
C12_Witness ==
    /\ mainpc = "pages" /\ args.scope = s_page
    /\ ret = "true"
    /\ Len(callStack) = 1
    /\ Top.phase = "forms" /\ Top.k = 1 /\ Len(Top.forms) = 2
    /\ ~Verdict(streamData["s1"]) /\ ~Verdict(streamData["s2"])

(***************************************************************************)
(* Reading the command line, for the properties below.                     *)
(***************************************************************************)
IsFlag(a) == a[1] = "-"
UnknownFlag(a) == IsFlag(a) /\ FlagChar(a) \notin {"m", "o", "t", "q", "s", "p"}
NumPositional(l) == Cardinality({i \in 1..Len(l) : ~IsFlag(l[i])})

\* The arguments the loop of parseArgs has been through.
ArgsParsed == SubSeq(argv, 1, argi - 1)

\* Usage was printed, the exit status is 2, no file was opened or changed.
UsageExit ==
    /\ mainpc = "exit" /\ exitCode = 2
    /\ stderr = <<"usage">>
    /\ files = InitFiles /\ opened = {}

(***************************************************************************)
(* C13. Once parseArgs has been through an argument that starts with a     *)
(* dash and whose second character is none of m, o, t, q, s, p, the usage  *)
(* line has been printed and the process has exited with status 2, and no  *)
(* file was opened or written.                                             *)
(***************************************************************************)
C13_UnknownFlagUsage ==
    (\E i \in 1..Len(ArgsParsed) : UnknownFlag(ArgsParsed[i])) => UsageExit

(***************************************************************************)
(* C14. With fewer than two or more than three positional arguments,       *)
(* parseArgs ends in the usage line and exit status 2; while parseArgs     *)
(* runs and when it ends so, no file has been opened, written, removed or  *)
(* renamed.                                                                *)
(***************************************************************************)
C14_PositionalCount ==
    /\ mainpc = "parseArgs" => (files = InitFiles /\ opened = {})
    /\ (/\ mainpc # "parseArgs"
        /\ (NumPositional(argv) < 2 \/ NumPositional(argv) > 3)) => UsageExit

\* Four positional arguments: usage at the fourth.
C14_Witness ==
    /\ NumPositional(argv) = 4
    /\ argi = 5
    /\ UsageExit

(***************************************************************************)
(* C15. The scope parseArgs leaves is that of the last scope flag it has   *)
(* been through: -m match, -o operator, -t text object, -q graphics state, *)
(* -s stream, -p page; it is match when there was no flag.                 *)
(***************************************************************************)
ScopeOfFlag(c) ==
    CASE c = "m" -> s_match
      [] c = "o" -> s_operator
      [] c = "t" -> s_text_object
      [] c = "q" -> s_graphics_state
      [] c = "s" -> s_stream
      [] c = "p" -> s_page

FlagsIn(l) == {i \in 1..Len(l) : IsFlag(l[i])}

C15_FlagsToScopes ==
    (\A i \in 1..Len(ArgsParsed) : ~UnknownFlag(ArgsParsed[i])) =>
        args.scope = IF FlagsIn(ArgsParsed) = {} THEN s_match
                     ELSE ScopeOfFlag(FlagChar(ArgsParsed[Max(FlagsIn(ArgsParsed))]))

\* -t, a pattern and an input path: text-object scope when main goes on.
C15_Witness ==
    /\ mainpc = "processFile"
    /\ Len(argv) = 3 /\ argv[1] = <<"-", "t">>
    /\ FlagsIn(argv) = {1}
    /\ args.scope = s_text_object

(***************************************************************************)
(* C16. With no output path, the input path holds the whole original       *)
(* document or the whole rewritten document in every state main reaches,   *)
(* a step that fails included.                                             *)
(***************************************************************************)
C16_InPlaceAllOrNothing ==
    (/\ mainpc # "parseArgs"
     /\ args.infile = <<"f">> /\ args.outfile = NULL) =>
        files[<<"f">>] \in {"original", "rewritten"}

(***************************************************************************)
(* C17. The descent of redactPage into form XObjects is guarded against    *)
(* cycles: no page or form is entered while a call on it is in progress,   *)
(* and the recursion never goes deeper than the model follows it.          *)
(***************************************************************************)
C17_RecursionGuarded ==
    /\ mainpc # "toodeep"
    /\ \A i, j \in 1..Len(callStack) :
          i < j => callStack[i].unit # callStack[j].unit

(***************************************************************************)
(* C18. The pieces the frames of the stack hold, read from the root frame  *)
(* up, are the delivered tokens that no redacting flush and no trim threw  *)
(* away, each once and in the order of delivery: a flush that keeps a      *)
(* frame puts all its pieces after those of the frame below.  At every     *)
(* scope but match each piece is the raw bytes of its token, so the final  *)
(* output is a subsequence of the input.                                   *)
(***************************************************************************)
RECURSIVE StackPieces(_)
StackPieces(stack) ==
    IF stack = <<>> THEN <<>> ELSE Head(stack).first \o StackPieces(Tail(stack))

C18_MergeKeepsOrder ==
    LET pieces == StackPieces(filter._stack)
    IN  /\ Increasing([i \in 1..Len(pieces) |-> pieces[i].pos])
        /\ Positions(pieces) = (1..Len(input)) \ (filter.discarded \cup filter.dropped)
        /\ filter._scope # s_match =>
              \A i \in 1..Len(pieces) : pieces[i].raw = input[pieces[i].pos].raw
        /\ (pc = "eof" /\ filter._scope # s_match) => OutputIsSubsequence

\* Tj BT (a) ET at text-object scope: the block is kept, after the Tj.
C18_Witness ==
    /\ pc = "eof" /\ filter._scope = s_text_object
    /\ Len(input) = 4
    /\ IsWord(input[1], Tj) /\ IsWord(input[2], BT)
    /\ input[3].type = tt_string /\ IsWord(input[4], ET)
    /\ OutPos = <<1, 2, 3, 4>>

(***************************************************************************)
(* C19. No token of a frame that a flush redacted is in any frame or in    *)
(* the output afterwards, and the text of every frame is the text of the   *)
(* string tokens the frame holds and nothing else: the text of a redacted  *)
(* inner frame is not in the frame that encloses it, which is kept or not  *)
(* on the text of what is left in it.                                      *)
(***************************************************************************)
RECURSIVE FrameText(_)
FrameText(first) ==
    IF first = <<>> THEN <<>>
    ELSE LET token == Tokenize(Head(first).raw)
         IN  (IF token.type = tt_string THEN token.value ELSE <<>>)
             \o FrameText(Tail(first))

C19_DiscardedNeverReturns ==
    /\ filter.discarded \cap Positions(StackPieces(filter._stack)) = {}
    /\ \A k \in 1..Len(filter._stack) :
          filter._stack[k].second = FrameText(filter._stack[k].first)

\* BT BT (ab) ET at text-object scope: the inner block goes, the outer BT stays.
C19_Witness ==
    /\ pc = "eof" /\ filter._scope = s_text_object
    /\ Len(input) = 4
    /\ IsWord(input[1], BT) /\ IsWord(input[2], BT)
    /\ regex_search(input[3].value, filter._regex) /\ IsWord(input[4], ET)
    /\ filter.discarded = {2, 3, 4}
    /\ OutPos = <<1>>

(***************************************************************************)
(* C20. After handleEOF the verdict is positive exactly when a flush       *)
(* redacted a frame or the text of the string tokens left in the output    *)
(* matches.  At stream and page scope the stack never holds more than the  *)
(* root frame, nothing is redacted, and the verdict is positive exactly    *)
(* when the text of all string tokens of the stream matches.               *)
(***************************************************************************)
C20_Verdict ==
    /\ pc = "eof" =>
          (redact(filter) <=>
              \/ filter.redactedAt # {}
              \/ regex_search(FrameText(data(filter)), filter._regex))
    /\ filter._scope \in {s_stream, s_page} =>
          /\ Len(filter._stack) = 1
          /\ filter.redactedAt = {} /\ filter.discarded = {}
          /\ pc = "eof" =>
                (redact(filter) <=>
                    regex_search(TextOf(input, 1, Len(input)), filter._regex))

\* At page scope, a match that only the strings of the stream together make.
C20_Witness ==
    /\ pc = "eof" /\ filter._scope = s_page
    /\ NoTokenMatches(input, filter._regex)
    /\ Len(input) >= 3
    /\ redact(filter)

(***************************************************************************)
(* C21. The stack always holds the root frame; at match, stream and page   *)
(* scope it holds nothing else, at operator scope at most one frame more.  *)
(* A step adds at most one frame, and only for a token that starts the     *)
(* scope of the filter, when that scope nests or only the root frame is    *)
(* there; a step that takes frames away leaves the root frame.             *)
(***************************************************************************)
\* The scope a token starts: BT a text object, q a graphics state, every
\* token that is neither word nor white space an operator.
StartedScope(token) ==
    CASE IsWord(token, BT) -> {s_text_object}
      [] IsWord(token, q) -> {s_graphics_state}
      [] token.type \in {tt_word, tt_space} -> {}
      [] OTHER -> {s_operator}

C21_DepthInvariant ==
    /\ Len(filter._stack) >= 1
    /\ filter._scope \in {s_match, s_stream, s_page} => Len(filter._stack) = 1
    /\ filter._scope = s_operator => Len(filter._stack) <= 2

C21_PushStep ==
    /\ Len(filter'._stack) > Len(filter._stack) =>
          /\ Len(filter'._stack) = Len(filter._stack) + 1
          /\ Len(input') = Len(input) + 1
          /\ filter._scope \in StartedScope(input'[Len(input')])
          /\ (nestable(filter._scope) \/ Len(filter._stack) = 1)
    /\ Len(filter'._stack) < Len(filter._stack) => Len(filter'._stack) >= 1

C21_StackDepth == [](C21_DepthInvariant) /\ [][C21_PushStep]_vars

\* Two operands at operator scope: one operator frame above the root.
C21_Witness ==
    /\ pc = "tokens" /\ filter._scope = s_operator
    /\ Len(input) = 2
    /\ IsOperand(input[1]) /\ IsOperand(input[2])
    /\ Len(filter._stack) = 2
    /\ Len(filter._stack[2].first) = 2

(***************************************************************************)
(* C22. ET at text-object scope, or Q at graphics-state scope, delivered   *)
(* while the stack holds only the root frame: the token is appended to the *)
(* root frame and nothing else changes; no frame is taken away, the        *)
(* redaction flag keeps its value, nothing is discarded.                   *)
(***************************************************************************)
EndMarker(scope) == IF scope = s_text_object THEN ET ELSE Q

C22_EndStep ==
    (/\ pc = "tokens" /\ Len(input') = Len(input) + 1
     /\ filter._scope \in {s_text_object, s_graphics_state}
     /\ Len(filter._stack) = 1
     /\ IsWord(input'[Len(input')], EndMarker(filter._scope))) =>
        /\ filter'._stack =
              <<[first |-> Append(filter._stack[1].first,
                                  [raw |-> EndMarker(filter._scope),
                                   pos |-> Len(input')]),
                 second |-> filter._stack[1].second]>>
        /\ filter'._redact = filter._redact
        /\ filter'.discarded = filter.discarded
        /\ filter'.dropped = filter.dropped
        /\ filter'.redactedAt = filter.redactedAt
        /\ pc' = "tokens"

C22_UnmatchedEnd == [][C22_EndStep]_vars

\* Q comes first at graphics-state scope and is the output.
C22_Witness ==
    /\ pc = "tokens" /\ filter._scope = s_graphics_state
    /\ Len(input) = 1 /\ IsWord(input[1], Q)
    /\ Len(filter._stack) = 1
    /\ OutRaw = <<Q>>
    /\ ~filter._redact

(***************************************************************************)
(* C23. After handleEOF the stack holds the root frame alone.  A BT (q)    *)
(* never closed is flushed at the end of the stream like a closed one: all *)
(* of it is absent from the output when its accumulated text matches, and  *)
(* it is in the output when it does not match and lies in no block that    *)
(* matches.  At operator scope the operands after the last operator name   *)
(* are absent when their text matches and in the output when not.          *)
(***************************************************************************)
Unclosed(s, open, close, i) ==
    IsWord(s[i], open) /\ BlockEnd(s, open, close, i) = Len(s) + 1

C23_UnclosedBlocks(open, close) ==
    \A i \in 1..Len(input) :
        Unclosed(input, open, close, i) =>
            /\ BlockMatches(input, filter._regex, open, close, i) =>
                  \A p \in i..Len(input) : p \notin OutSet
            /\ ~InMatchingBlock(input, filter._regex, open, close, i) => i \in OutSet

\* The first operand after the last word that is not a marker, 0 when none.
TrailingOperands(s) ==
    LET prev == Max({0} \cup {i \in 1..Len(s) : s[i].type = tt_word /\ ~IsMarker(s[i])})
        operands == {i \in (prev + 1)..Len(s) : IsOperand(s[i])}
    IN  IF operands = {} THEN 0 ELSE Min(operands)

C23_EndOfStream ==
    pc = "eof" =>
        /\ Len(filter._stack) = 1
        /\ filter._scope = s_text_object => C23_UnclosedBlocks(BT, ET)
        /\ filter._scope = s_graphics_state => C23_UnclosedBlocks(q, Q)
        /\ (filter._scope = s_operator /\ TrailingOperands(input) > 0) =>
              LET start == TrailingOperands(input)
              IN  IF regex_search(TextOf(input, start, Len(input)), filter._regex)
                  THEN \A p \in start..Len(input) : p \notin OutSet
                  ELSE \A p \in start..Len(input) : p \in OutSet

\* BT (a) BT (ab): the inner block goes first and is discarded, the outer stays.
C23_Witness ==
    /\ pc = "eof" /\ filter._scope = s_text_object
    /\ Len(input) = 4
    /\ Unclosed(input, BT, ET, 1) /\ Unclosed(input, BT, ET, 3)
    /\ input[2].type = tt_string /\ input[4].type = tt_string
    /\ filter.discarded = {3, 4}
    /\ OutPos = <<1, 2>>

(***************************************************************************)
(* C24. Original statement: at operator scope, a word delivered while an   *)
(* operator frame is open closes the frame, whatever the word is.          *)
(***************************************************************************)
\* The step delivers a word while an operator frame is open.
WordOnOpenFrame ==
    /\ pc = "tokens" /\ Len(input') = Len(input) + 1
    /\ filter._scope = s_operator /\ Len(filter._stack) = 2
    /\ input'[Len(input')].type = tt_word

C24_Original == [][WordOnOpenFrame => Len(filter'._stack) = 1]_vars

(***************************************************************************)
(* C24, amended.  At operator scope, a word other than BT, ET, q and Q     *)
(* delivered while an operator frame is open closes the frame; BT, ET, q   *)
(* or Q is appended to the open frame, which stays open.  An open operator *)
(* frame begins with an operand and holds no word but these four, and      *)
(* there is never more than one operator frame.                            *)
(***************************************************************************)
C24_WordStep ==
    WordOnOpenFrame =>
        IF IsMarker(input'[Len(input')])
        THEN /\ Len(filter'._stack) = 2
             /\ filter'._stack[2].first =
                    Append(filter._stack[2].first,
                           [raw |-> input'[Len(input')].raw, pos |-> Len(input')])
        ELSE Len(filter'._stack) = 1

C24_OpenFrame ==
    filter._scope = s_operator =>
        /\ Len(filter._stack) <= 2
        /\ Len(filter._stack) = 2 =>
              LET first == filter._stack[2].first
              IN  /\ first # <<>>
                  /\ IsOperand(input[first[1].pos])
                  /\ \A i \in 1..Len(first) :
                        input[first[i].pos].type = tt_word => IsMarker(input[first[i].pos])

C24_OperatorFrameCloses == [](C24_OpenFrame) /\ [][C24_WordStep]_vars

\* (a) BT at operator scope: the frame of (a) is open and holds the BT.
C24_Witness ==
    /\ pc = "tokens" /\ filter._scope = s_operator
    /\ Len(input) = 2
    /\ input[1].type = tt_string /\ IsWord(input[2], BT)
    /\ Len(filter._stack) = 2
    /\ Positions(filter._stack[2].first) = {1, 2}

(***************************************************************************)
(* C25. While tokens are delivered, the trim flag is set exactly when the  *)
(* call of handleToken for the last token redacted a frame; the tokens     *)
(* dropped are exactly the white-space tokens that came right after a      *)
(* token whose call redacted a frame.                                      *)
(***************************************************************************)
C25_TrimFlag ==
    /\ pc = "tokens" => (filter._trim <=> Len(input) \in filter.redactedAt)
    /\ filter.dropped =
          {p \in 1..Len(input) :
              input[p].type = tt_space /\ (p - 1) \in filter.redactedAt}

\* A white-space token has just been dropped: the flag is clear again.
C25_Witness ==
    /\ pc = "tokens"
    /\ Len(input) >= 3
    /\ filter.dropped = {Len(input)}
    /\ ~filter._trim

(***************************************************************************)
(* C26. At match scope the stack holds the root frame alone, nothing is    *)
(* discarded and no white space dropped; the output has one piece for each *)
(* token delivered, in order: the bytes of the token when it is no string, *)
(* and a string token whose text is the text of the token with the matches *)
(* removed when it is one.                                                 *)
(***************************************************************************)
C26_MatchScope ==
    filter._scope = s_match =>
        /\ Len(filter._stack) = 1
        /\ filter.discarded = {} /\ filter.dropped = {} /\ filter.redactedAt = {}
        /\ Len(data(filter)) = Len(input)
        /\ \A i \in 1..Len(input) :
              /\ OutPos[i] = i
              /\ IF input[i].type = tt_string
                 THEN /\ Tokenize(OutRaw[i]).type = tt_string
                      /\ Tokenize(OutRaw[i]).value =
                            regex_replace(input[i].value, filter._regex)
                 ELSE OutRaw[i] = input[i].raw

\* A string that matches between a word and white space: only it changes.
C26_Witness ==
    /\ pc = "eof" /\ filter._scope = s_match
    /\ Len(input) = 4
    /\ IsWord(input[1], BT) /\ input[2] = StringToken(<<"a", "a", "b", "b">>)
    /\ input[3].type = tt_space /\ IsWord(input[4], Tj)
    /\ OutRaw = <<BT, Unparse(<<"a", "b">>), <<" ">>, Tj>>

(***************************************************************************)
(* C27. At stream scope, while redactPage is in a form XObject, no step    *)
(* changes the data of a stream or the contents of a page, whatever the    *)
(* verdict on the form: the turn of the loop on the stream of the form     *)
(* does not return, and the loop over the form XObjects of the form then   *)
(* enters each of them.                                                    *)
(***************************************************************************)
C27_FormStep ==
    (/\ mainpc = "pages" /\ args.scope = s_stream
     /\ callStack # <<>> /\ Top.unit \in FormIds /\ ret = "none") =>
        /\ streamData' = streamData
        /\ contents' = contents
        /\ ret' # "true"
        /\ Top.phase = "streams" =>
              /\ Len(callStack') = Len(callStack)
              /\ callStack'[Len(callStack')].unit = Top.unit
        /\ (/\ Top.phase = "forms" /\ Top.k <= Len(xobjects[Top.unit])
            /\ Len(callStack) < MaxDepth) =>
              callStack' = Append(callStack, Call(xobjects[Top.unit][Top.k]))

C27_FormAtStreamScope ==
    [](args.scope = s_stream => streamData = original) /\ [][C27_FormStep]_vars

\* A form with a positive verdict, and the call on the form it names.
C27_Witness ==
    /\ mainpc = "pages" /\ args.scope = s_stream
    /\ Len(callStack) = 3
    /\ callStack[2].unit = "f1" /\ callStack[3].unit = "f2"
    /\ Verdict(original["f1"])
    /\ streamData["f1"] = original["f1"]

(***************************************************************************)
(* C28. At operator, text-object and graphics-state scope, when no two     *)
(* words of the input stand next to each other, no two words of the output *)
(* do.                                                                     *)
(***************************************************************************)
\* Two word tokens with nothing between them.
AdjacentWords(types) ==
    \E i \in 1..(Len(types) - 1) : types[i] = tt_word /\ types[i + 1] = tt_word

InTypes == [i \in 1..Len(input) |-> input[i].type]
OutTypes == [i \in 1..Len(OutPos) |-> input[OutPos[i]].type]

C28_NoGlue ==
    (/\ pc = "eof"
     /\ filter._scope \in {s_operator, s_text_object, s_graphics_state}
     /\ ~AdjacentWords(InTypes)) => ~AdjacentWords(OutTypes)

(***************************************************************************)
(* C29. In every state, the text of every frame of the stack is the text   *)
(* of the string tokens whose bytes the frame holds, in the order it holds *)
(* them: the text the token came with, or at match scope the text it was   *)
(* rewritten to.                                                           *)
(***************************************************************************)
\* The text the filter collects for the token delivered at position p.
CollectedText(p) ==
    IF input[p].type # tt_string THEN <<>>
    ELSE IF filter._scope = s_match
         THEN regex_replace(input[p].value, filter._regex)
    ELSE input[p].value

RECURSIVE BufferText(_)
BufferText(first) ==
    IF first = <<>> THEN <<>>
    ELSE CollectedText(Head(first).pos) \o BufferText(Tail(first))

C29_ProbeIsBufferText ==
    \A k \in 1..Len(filter._stack) :
        filter._stack[k].second = BufferText(filter._stack[k].first)

\* (a) Tj (b) Tj at operator scope: two operators kept, their text side by side.
C29_Witness ==
    /\ pc = "eof" /\ filter._scope = s_operator
    /\ OutPos = <<1, 2, 3, 4>>
    /\ input[1].type = tt_string /\ input[3].type = tt_string
    /\ filter._stack[1].second = <<"a", "b">>

(***************************************************************************)
(* C30. After handleEOF every token delivered is in exactly one of: the    *)
(* output, the tokens that went with a redacted frame, the white-space     *)
(* tokens dropped; the output holds no token twice.  A call of handleToken *)
(* changes the depth of the stack by one at most: when it adds a frame the *)
(* frame holds the token alone, when it takes one away the token was in    *)
(* the frame taken away.                                                   *)
(***************************************************************************)
C30_Partition ==
    pc = "eof" =>
        /\ OutSet \cup filter.discarded \cup filter.dropped = 1..Len(input)
        /\ OutSet \cap filter.discarded = {}
        /\ OutSet \cap filter.dropped = {}
        /\ filter.discarded \cap filter.dropped = {}
        /\ Cardinality(OutSet) = Len(data(filter))

C30_CallStep ==
    (pc = "tokens" /\ Len(input') = Len(input) + 1) =>
        LET before == Len(filter._stack)
            after == Len(filter'._stack)
            n == Len(input')
        IN  /\ after \in {before - 1, before, before + 1}
            /\ after = before + 1 => Positions(filter'._stack[after].first) = {n}
            /\ after = before - 1 =>
                  \/ n \in filter'.discarded
                  \/ n \in Positions(filter'._stack[after].first)
            /\ Cardinality(filter'.redactedAt) <= Cardinality(filter.redactedAt) + 1

C30_EveryTokenOnce == [](C30_Partition) /\ [][C30_CallStep]_vars

\* (ab) Tj, white space, Tj at operator scope: two discarded, one dropped, one out.
C30_Witness ==
    /\ pc = "eof" /\ filter._scope = s_operator
    /\ filter.discarded = {1, 2}
    /\ filter.dropped = {3}
    /\ OutPos = <<4>>

(***************************************************************************)
(* C31. At text-object (graphics-state) scope, when the BT and ET (q and   *)
(* Q) of the input are balanced, those of the output are balanced: an      *)
(* opening marker is absent from the output exactly when the marker that   *)
(* closes it is, and then every token between the two is absent.           *)
(***************************************************************************)
\* Opening markers less closing markers among the first k tokens.
RECURSIVE Depth(_, _, _, _)
Depth(s, open, close, k) ==
    IF k = 0 THEN 0
    ELSE Depth(s, open, close, k - 1)
         + (IF IsWord(s[k], open) THEN 1 ELSE IF IsWord(s[k], close) THEN -1 ELSE 0)

Balanced(s, open, close) ==
    /\ \A k \in 1..Len(s) : Depth(s, open, close, k) >= 0
    /\ Depth(s, open, close, Len(s)) = 0

OutTokens == [i \in 1..Len(OutPos) |-> input[OutPos[i]]]

C31_MarkersAt(open, close) ==
    Balanced(input, open, close) =>
        /\ Balanced(OutTokens, open, close)
        /\ \A i \in 1..Len(input) :
              IsWord(input[i], open) =>
                  LET j == BlockEnd(input, open, close, i)
                  IN  /\ i \in OutSet <=> j \in OutSet
                      /\ i \notin OutSet => \A p \in i..j : p \notin OutSet

C31_BalancedMarkers ==
    pc = "eof" =>
        /\ filter._scope = s_text_object => C31_MarkersAt(BT, ET)
        /\ filter._scope = s_graphics_state => C31_MarkersAt(q, Q)

\* q q (ab) Q Q at graphics-state scope: the inner block goes, q Q is left.
C31_Witness ==
    /\ pc = "eof" /\ filter._scope = s_graphics_state
    /\ Len(input) = 5
    /\ IsWord(input[1], q) /\ IsWord(input[2], q) /\ input[3].type = tt_string
    /\ IsWord(input[4], Q) /\ IsWord(input[5], Q)
    /\ OutPos = <<1, 5>>

(***************************************************************************)
(* C32. A call of redactPage returns true at page scope only, and then no  *)
(* stream and no /Contents of the document has changed; at every other     *)
(* scope all pages stay in the document, and at stream scope a page whose  *)
(* streams were all left out stays with empty contents.                    *)
(***************************************************************************)
AllOmitted(p) ==
    \A k \in 1..Len(PageContents[p]) : Verdict(original[PageContents[p][k]])

C32_TrueOnlyAtPageScope ==
    /\ ret = "true" =>
          /\ args.scope = s_page
          /\ streamData = original
          /\ contents = PageContents
    /\ args.scope # s_page => pages = AllPages
    /\ args.scope = s_stream =>
          \A p \in PageIds :
              (ContentsSet(p) /\ AllOmitted(p)) => contents[p] = <<>>

\* Stream scope, the loop of main over: both streams of the first page were
\* left out, the page is still there.
C32_Witness ==
    /\ mainpc = "done" /\ args.scope = s_stream
    /\ AllOmitted("p1")
    /\ contents["p1"] = <<>>
    /\ pages = AllPages

====
